---------------------------- MODULE Spec2Model ----------------------------
(***************************************************************************)
(* calc_price of tests/gen_vectors.py (the UTXOracle price estimator,      *)
(* steps 5-11) as a state machine: histogram builder, conditioner, shift   *)
(* detector, rough-price blend, denomination voter, refiner.               *)
(*                                                                         *)
(* The Python code computes in IEEE doubles; TLC has 32-bit integers only. *)
(* Every float quantity is held in a fixed-point unit, stated where the    *)
(* quantity is defined:                                                    *)
(*   amounts            micro-BTC (1e-6 BTC), an integer                   *)
(*   log10(a)           1/LogScale of a decade, floored                    *)
(*   bin edges          their exponent, in the same unit (exact)           *)
(*   histogram counts   bc before conditioning: whole counts               *)
(*   densities          bc after conditioning: numerators over a common    *)
(*                      denominator, in lowest terms; cs in half counts    *)
(*   kernel weights     1e-6                                               *)
(*   scores             numerators over 20 * 1e6 * that denominator        *)
(*   prices             cents; rough and final in whole dollars            *)
(* Comparisons and quotients are exact in these units; rounding of the     *)
(* doubles themselves is not modelled.                                     *)
(***************************************************************************)
EXTENDS Integers, Sequences, FiniteSets, TLC

(* ------------------------------ bounds -------------------------------- *)
\* longest list of raw outputs handed to calc_price
MaxOutputs == 2
\* sample points per histogram bin in the domain sweep of the builder
HistSamples == 3
\* largest candidate multiset handed directly to the refiner
MaxPrices == 3

VARIABLES
  pc,           \* position in calc_price: "hist", "cond", "shift", "blend",
                \* "vote", "split", "refine", "ret", "done", "raised"
  err,          \* the exception that ended the call, or "none"
  raw_outputs,  \* the argument: a sequence of [amt, al] (amount, log10)
  k,            \* outputs binned so far (loop of line 43)
  binned,       \* bin index be-1 resolved for each output so far
  bc,           \* histogram: bin index -> value, absent bins are 0.0
  s5sum,        \* sum(bc) before conditioning
  cs,           \* window sum after repair, in half counts
  scos,         \* sco of every shift sl, as the scan computed it
  bsl, bss, ts, \* best shift, best score, total score
  bn2,          \* chosen neighbour of the best shift: -1 or 1
  rough,        \* rough price, whole dollars
  op,           \* candidate prices u/n, cents, in append order
  opsrc,        \* for each element of op the <<i, u>> it came from
  pd, pu,       \* refiner: bounds of the split window, times WinDen
  cp2, avset,   \* refiner: current split result and results seen
  it,           \* iterations of the refiner loop completed
  final         \* int(cp2), whole dollars

vars == <<pc, err, raw_outputs, k, binned, bc, s5sum, cs, scos, bsl, bss, ts,
          bn2, rough, op, opsrc, pd, pu, cp2, avset, it, final>>

(* ------------------------- sparse float arrays ------------------------ *)
\* bc[n] of a list initialised to 0.0 and stored by its non-zero entries
Get(f, n) == IF n \in DOMAIN f THEN f[n] ELSE 0

Put(f, n, v) ==
  IF v = 0 THEN [j \in DOMAIN f \ {n} |-> f[j]]
  ELSE [j \in DOMAIN f \cup {n} |-> IF j = n THEN v ELSE f[j]]

RECURSIVE SumOver(_, _)
SumOver(f, S) ==
  IF S = {} THEN 0
  ELSE LET n == CHOOSE x \in S : TRUE IN f[n] + SumOver(f, S \ {n})

Abs(x) == IF x < 0 THEN -x ELSE x
Min(x, y) == IF x < y THEN x ELSE y
Max(x, y) == IF x > y THEN x ELSE y

(* --------------------------- histogram builder ------------------------ *)
\* fixed-point unit of log10: LogScale units per decade
LogScale == 10000
\* bins per decade: range(200), b/200.0
BinsPerDecade == 200
\* decades: range(-6, 6)
Decades == 12
\* nb = len(bins): the 0.0 sentinel and 12 * 200 edges
nb == 1 + Decades * BinsPerDecade

\* log10 of bins[i] above its lowest edge 1e-6, for i >= 1: bins[i] =
\* 10**(ex + b/200.0) with i - 1 = 200 * (ex + 6) + b
BinLog(i) == (i - 1) * (LogScale \div BinsPerDecade)

\* bins[i] <= a, for a > 0 with al = log10(a) + 6; bins[0] is 0.0
BinLE(i, al) == i = 0 \/ BinLog(i) <= al

\* be = int(p*nb) with p = (al-(-6))/12.0
ApproxIndex(al) == (al * nb) \div (Decades * LogScale)

\* while bins[be]<=a: be+=1.  The value nb stands for the IndexError that
\* reading bins[nb] raises.
RECURSIVE Scan(_, _)
Scan(be, al) ==
  IF be >= nb THEN nb
  ELSE IF BinLE(be, al) THEN Scan(be + 1, al) ELSE be

\* lines 43-46, one output: resolve its bin and count it
HistogramStep ==
  /\ pc = "hist"
  /\ k < Len(raw_outputs)
  /\ LET al == raw_outputs[k + 1].al
         be == Scan(ApproxIndex(al), al)
     IN IF be = nb
        THEN /\ pc' = "raised"
             /\ err' = "IndexError"
             /\ UNCHANGED <<k, binned, bc>>
        ELSE /\ bc' = Put(bc, be - 1, Get(bc, be - 1) + 1)
             /\ binned' = Append(binned, be - 1)
             /\ k' = k + 1
             /\ UNCHANGED <<pc, err>>
  /\ UNCHANGED <<raw_outputs, s5sum, cs, scos, bsl, bss, ts, bn2, rough, op,
                 opsrc, pd, pu, cp2, avset, it, final>>

\* the loop of line 43 is exhausted
HistogramDone ==
  /\ pc = "hist"
  /\ k = Len(raw_outputs)
  /\ pc' = "cond"
  /\ UNCHANGED <<err, raw_outputs, k, binned, bc, s5sum, cs, scos, bsl, bss,
                 ts, bn2, rough, op, opsrc, pd, pu, cp2, avset, it, final>>

(* ------------------------- histogram conditioner ---------------------- *)
\* first and one-past-last bin of the window: range(201), range(1601,nb)
WinLo == 201
WinHi == 1601
\* density cap 0.008 = 1 / CapDen
CapDen == 125

\* the repaired bins, in the order of line 51
DeadBins == <<201, 401, 461, 496, 540, 601, 661, 696, 740, 801, 861, 896,
              940, 1001, 1061, 1096, 1140, 1201>>

\* for n in range(201): bc[n]=0.0 / for n in range(1601,nb): bc[n]=0.0;
\* the counts that stay are doubled, so that line 52 stays integral
ZeroTails(f) ==
  [n \in {j \in DOMAIN f : j >= WinLo /\ j < WinHi} |-> 2 * f[n]]

\* for r in [...]: bc[r]=0.5*(bc[r+1]+bc[r-1]), in list order
RECURSIVE Repair(_, _)
Repair(f, j) ==
  IF j > Len(DeadBins) THEN f
  ELSE LET r == DeadBins[j]
       IN Repair(Put(f, r, (Get(f, r + 1) + Get(f, r - 1)) \div 2), j + 1)

\* cs = sum(bc[201:1601])
WindowSum(f) == SumOver(f, {n \in DOMAIN f : n >= WinLo /\ n < WinHi})

RECURSIVE Gcd(_, _)
Gcd(a, b) == IF b = 0 THEN a ELSE Gcd(b, a % b)

RECURSIVE GcdOver(_, _)
GcdOver(f, S) ==
  IF S = {} THEN 0
  ELSE LET n == CHOOSE x \in S : TRUE IN Gcd(f[n], GcdOver(f, S \ {n}))

\* bc[n]/=cs; if bc[n]>0.008: bc[n]=0.008.  The densities are the
\* numerators min(CapDen * bc[n], cs) over the denominator CapDen * cs,
\* both divided by the numerators' common divisor
Normalise(f, c) ==
  LET num == [n \in DOMAIN f |-> Min(CapDen * f[n], c)]
      g == GcdOver(num, DOMAIN num)
  IN [n \in DOMAIN f |-> num[n] \div g]

\* lines 48-56; bc[n]/=cs raises ZeroDivisionError when cs is 0.0
Condition ==
  /\ pc = "cond"
  /\ LET rep == Repair(ZeroTails(bc), 1)
         c == WindowSum(rep)
     IN /\ s5sum' = SumOver(bc, DOMAIN bc)
        /\ cs' = c
        /\ IF c = 0
           THEN /\ pc' = "raised"
                /\ err' = "ZeroDivisionError"
                /\ bc' = rep
           ELSE /\ pc' = "shift"
                /\ bc' = Normalise(rep, c)
                /\ err' = err
  /\ UNCHANGED <<raw_outputs, k, binned, scos, bsl, bss, ts, bn2, rough, op,
                 opsrc, pd, pu, cp2, avset, it, final>>

(* ----------------------------- shift detector ------------------------- *)
\* ne=803: length of the kernel
ne == 803
\* cp=601: the centre bin
cp == 601
\* for sl in range(-141,201)
ShiftLo == -141
ShiftHi == 200
\* if sl<150: sco+=sss*0.65, and 0.65 = SmoothNum / ScoreDen
SmoothBelow == 150
SmoothNum == 13
ScoreDen == 20

\* ss[x] = 0.00150*exp(-((x-mn)**2)/(2.0*sd**2))+0.0000005*x for x in
\* range(ne), mn=411, sd=201, rounded to 1e-6; ss[x] is SmoothTab[x + 1]
SmoothTab == <<
      185, 188, 190, 193, 195, 198, 200, 202, 205, 208, 210, 213, 215, 218, 220, 223,
      226, 228, 231, 233, 236, 239, 242, 244, 247, 250, 253, 255, 258, 261, 264, 267,
      270, 272, 275, 278, 281, 284, 287, 290, 293, 296, 299, 302, 305, 308, 311, 315,
      318, 321, 324, 327, 330, 334, 337, 340, 343, 347, 350, 353, 357, 360, 363, 367,
      370, 373, 377, 380, 384, 387, 391, 394, 398, 401, 405, 408, 412, 416, 419, 423,
      427, 430, 434, 438, 441, 445, 449, 453, 456, 460, 464, 468, 472, 476, 479, 483,
      487, 491, 495, 499, 503, 507, 511, 515, 519, 523, 527, 531, 536, 540, 544, 548,
      552, 556, 560, 565, 569, 573, 577, 582, 586, 590, 595, 599, 603, 608, 612, 616,
      621, 625, 630, 634, 638, 643, 647, 652, 656, 661, 665, 670, 674, 679, 684, 688,
      693, 697, 702, 707, 711, 716, 721, 725, 730, 735, 739, 744, 749, 754, 758, 763,
      768, 773, 777, 782, 787, 792, 797, 801, 806, 811, 816, 821, 826, 831, 836, 840,
      845, 850, 855, 860, 865, 870, 875, 880, 885, 890, 895, 900, 905, 910, 915, 920,
      925, 930, 935, 940, 945, 950, 955, 960, 965, 970, 975, 980, 985, 990, 995, 1000,
      1005, 1010, 1015, 1020, 1025, 1030, 1035, 1040, 1045, 1050, 1055, 1060, 1065, 1070, 1075, 1080,
      1085, 1090, 1095, 1100, 1105, 1110, 1115, 1120, 1125, 1130, 1135, 1140, 1145, 1150, 1155, 1160,
      1165, 1169, 1174, 1179, 1184, 1189, 1194, 1199, 1204, 1209, 1213, 1218, 1223, 1228, 1233, 1237,
      1242, 1247, 1252, 1256, 1261, 1266, 1271, 1275, 1280, 1285, 1289, 1294, 1299, 1303, 1308, 1312,
      1317, 1322, 1326, 1331, 1335, 1340, 1344, 1349, 1353, 1357, 1362, 1366, 1371, 1375, 1379, 1384,
      1388, 1392, 1396, 1401, 1405, 1409, 1413, 1417, 1422, 1426, 1430, 1434, 1438, 1442, 1446, 1450,
      1454, 1458, 1462, 1466, 1469, 1473, 1477, 1481, 1485, 1488, 1492, 1496, 1499, 1503, 1507, 1510,
      1514, 1517, 1521, 1524, 1528, 1531, 1535, 1538, 1541, 1545, 1548, 1551, 1555, 1558, 1561, 1564,
      1567, 1570, 1573, 1576, 1579, 1582, 1585, 1588, 1591, 1594, 1597, 1599, 1602, 1605, 1607, 1610,
      1613, 1615, 1618, 1620, 1623, 1625, 1628, 1630, 1632, 1635, 1637, 1639, 1642, 1644, 1646, 1648,
      1650, 1652, 1654, 1656, 1658, 1660, 1662, 1664, 1665, 1667, 1669, 1671, 1672, 1674, 1675, 1677,
      1679, 1680, 1681, 1683, 1684, 1686, 1687, 1688, 1689, 1690, 1692, 1693, 1694, 1695, 1696, 1697,
      1698, 1699, 1699, 1700, 1701, 1702, 1703, 1703, 1704, 1704, 1705, 1706, 1706, 1706, 1707, 1707,
      1708, 1708, 1708, 1708, 1708, 1709, 1709, 1709, 1709, 1709, 1709, 1709, 1709, 1708, 1708, 1708,
      1708, 1708, 1707, 1707, 1706, 1706, 1706, 1705, 1704, 1704, 1703, 1703, 1702, 1701, 1700, 1700,
      1699, 1698, 1697, 1696, 1695, 1694, 1693, 1692, 1691, 1690, 1689, 1687, 1686, 1685, 1683, 1682,
      1681, 1679, 1678, 1676, 1675, 1673, 1672, 1670, 1668, 1667, 1665, 1663, 1662, 1660, 1658, 1656,
      1654, 1652, 1650, 1648, 1646, 1644, 1642, 1640, 1638, 1636, 1634, 1631, 1629, 1627, 1624, 1622,
      1620, 1617, 1615, 1612, 1610, 1607, 1605, 1602, 1600, 1597, 1594, 1592, 1589, 1586, 1584, 1581,
      1578, 1575, 1572, 1570, 1567, 1564, 1561, 1558, 1555, 1552, 1549, 1546, 1543, 1540, 1537, 1533,
      1530, 1527, 1524, 1521, 1517, 1514, 1511, 1508, 1504, 1501, 1498, 1494, 1491, 1487, 1484, 1481,
      1477, 1474, 1470, 1467, 1463, 1460, 1456, 1452, 1449, 1445, 1442, 1438, 1434, 1431, 1427, 1423,
      1420, 1416, 1412, 1408, 1405, 1401, 1397, 1393, 1390, 1386, 1382, 1378, 1374, 1371, 1367, 1363,
      1359, 1355, 1351, 1347, 1343, 1339, 1336, 1332, 1328, 1324, 1320, 1316, 1312, 1308, 1304, 1300,
      1296, 1292, 1288, 1284, 1280, 1276, 1272, 1268, 1264, 1260, 1256, 1252, 1248, 1244, 1240, 1236,
      1232, 1228, 1224, 1220, 1216, 1212, 1208, 1204, 1200, 1196, 1192, 1188, 1184, 1180, 1176, 1172,
      1168, 1164, 1160, 1156, 1152, 1148, 1144, 1140, 1136, 1132, 1128, 1124, 1120, 1116, 1112, 1108,
      1104, 1100, 1096, 1092, 1088, 1084, 1080, 1076, 1073, 1069, 1065, 1061, 1057, 1053, 1049, 1045,
      1042, 1038, 1034, 1030, 1026, 1023, 1019, 1015, 1011, 1008, 1004, 1000, 996, 993, 989, 985,
      982, 978, 974, 971, 967, 963, 960, 956, 953, 949, 945, 942, 938, 935, 931, 928,
      924, 921, 917, 914, 911, 907, 904, 900, 897, 894, 890, 887, 884, 880, 877, 874,
      870, 867, 864, 861, 857, 854, 851, 848, 845, 842, 839, 835, 832, 829, 826, 823,
      820, 817, 814, 811, 808, 805, 802, 799, 796, 794, 791, 788, 785, 782, 779, 777,
      774, 771, 768, 766, 763, 760, 758, 755, 752, 750, 747, 744, 742, 739, 737, 734,
      732, 729, 727, 724, 722, 719, 717, 715, 712, 710, 708, 705, 703, 701, 698, 696,
      694, 692, 689, 687, 685, 683, 681, 679, 676, 674, 672, 670, 668, 666, 664, 662,
      660, 658, 656, 654, 652, 650, 649, 647, 645, 643, 641, 639, 638, 636, 634, 632,
      631, 629, 627
  >>

ss(n) == SmoothTab[n + 1]

\* the non-zero entries <<i, v>> of sp, v rounded to 1e-6
SpikeTab == {
      <<40, 1300>>,
      <<141, 1677>>,
      <<201, 3469>>,
      <<202, 1992>>,
      <<236, 1905>>,
      <<261, 3342>>,
      <<262, 2589>>,
      <<296, 2578>>,
      <<297, 2734>>,
      <<340, 3076>>,
      <<341, 5613>>,
      <<342, 3088>>,
      <<400, 2918>>,
      <<401, 6175>>,
      <<402, 4417>>,
      <<403, 2629>>,
      <<436, 2859>>,
      <<461, 4097>>,
      <<462, 3346>>,
      <<496, 2521>>,
      <<497, 2784>>,
      <<541, 3793>>,
      <<601, 3688>>,
      <<602, 2392>>,
      <<636, 1281>>,
      <<661, 1655>>,
      <<662, 1396>>,
      <<741, 1154>>,
      <<801, 832>>
  }

\* sp=[0.0]*ne; for i,v in [...]: sp[i]=v
SpikeFn ==
  [n \in 0..(ne - 1) |->
     IF \E e \in SpikeTab : e[1] = n
     THEN (CHOOSE e \in SpikeTab : e[1] = n)[2]
     ELSE 0]

sp(n) == SpikeFn[n]

\* hs=(len(sp)+1)//2; lp=cp-hs
hs == (ne + 1) \div 2
lp == cp - hs

\* the kernel positions n in range(ne) at which bc[base+n] is not 0.0: the
\* only terms of the sums over range(ne) that are not 0.0
Hits(f, base) == {n \in {b - base : b \in DOMAIN f} : n >= 0 /\ n < ne}

RECURSIVE Weighted(_, _, _, _)
Weighted(f, base, S, smooth) ==
  IF S = {} THEN 0
  ELSE LET n == CHOOSE x \in S : TRUE
       IN f[base + n] * (IF smooth THEN ss(n) ELSE sp(n))
          + Weighted(f, base, S \ {n}, smooth)

\* sss: sum of cv*ss[n], cv=bc[lp+sl+n]
SmoothSum(f, sl) == Weighted(f, lp + sl, Hits(f, lp + sl), TRUE)

\* sum of bc[base+n]*sp[n] over range(ne): sco before line 78, nus, nds
SpikeSum(f, base) == Weighted(f, base, Hits(f, base), FALSE)

\* line 77-78: sco of shift sl, times ScoreDen
Sco(f, sl) ==
  ScoreDen * SpikeSum(f, lp + sl)
    + (IF sl < SmoothBelow THEN SmoothNum * SmoothSum(f, sl) ELSE 0)

\* variant of Better: a later shift of equal score replaces the best
BetterOrEqual(sco, best) == sco >= best

\* if sco>bss: bss=sco; bsl=sl
Better(sco, best) == sco > best

\* lines 76-80 for one shift sl: acc holds bsl, bss, ts
ShiftStep(sc, sl, acc) ==
  IF Better(sc[sl], acc.bss)
  THEN [bsl |-> sl, bss |-> sc[sl], ts |-> acc.ts + sc[sl]]
  ELSE [acc EXCEPT !.ts = @ + sc[sl]]

\* the loop of line 75 over the shifts lo..hi in increasing order (the
\* range is halved to keep the evaluation shallow)
RECURSIVE ScanShifts(_, _, _, _)
ScanShifts(sc, lo, hi, acc) ==
  IF lo = hi THEN ShiftStep(sc, lo, acc)
  ELSE LET mid == lo + (hi - lo) \div 2
           left == ScanShifts(sc, lo, mid, acc)
       IN IF left.bsl \in Int THEN ScanShifts(sc, mid + 1, hi, left) ELSE left

\* lines 73-80: bsl=0; bss=0.0; ts=0.0 and the loop over every shift
ShiftScan ==
  /\ pc = "shift"
  /\ LET sc == [sl \in ShiftLo..ShiftHi |-> Sco(bc, sl)]
         r == ScanShifts(sc, ShiftLo, ShiftHi, [bsl |-> 0, bss |-> 0, ts |-> 0])
     IN /\ scos' = sc
        /\ bsl' = r.bsl
        /\ bss' = r.bss
        /\ ts' = r.ts
  /\ pc' = "blend"
  /\ UNCHANGED <<err, raw_outputs, k, binned, bc, s5sum, cs, bn2, rough, op,
                 opsrc, pd, pu, cp2, avset, it, final>>

(* --------------------------- rough-price blend ------------------------ *)
\* 1e9 * 10**(-r/200.0) for r in range(200), rounded
Pow10Tab == <<
      1000000000, 988553095, 977237221, 966050879, 954992586, 944060876, 933254301, 922571427,
      912010839, 901571138, 891250938, 881048873, 870963590, 860993752, 851138038, 841395142,
      831763771, 822242650, 812830516, 803526122, 794328235, 785235635, 776247117, 767361489,
      758577575, 749894209, 741310241, 732824533, 724435960, 716143410, 707945784, 699841996,
      691830971, 683911647, 676082975, 668343918, 660693448, 653130553, 645654229, 638263486,
      630957344, 623734835, 616595002, 609536897, 602559586, 595662144, 588843655, 582103218,
      575439937, 568852931, 562341325, 555904257, 549540874, 543250331, 537031796, 530884444,
      524807460, 518800039, 512861384, 506990708, 501187234, 495450191, 489778819, 484172368,
      478630092, 473151259, 467735141, 462381021, 457088190, 451855944, 446683592, 441570447,
      436515832, 431519077, 426579519, 421696503, 416869383, 412097519, 407380278, 402717034,
      398107171, 393550075, 389045145, 384591782, 380189396, 375837404, 371535229, 367282300,
      363078055, 358921935, 354813389, 350751874, 346736850, 342767787, 338844156, 334965439,
      331131121, 327340695, 323593657, 319889511, 316227766, 312607937, 309029543, 305492111,
      301995172, 298538262, 295120923, 291742701, 288403150, 285101827, 281838293, 278612117,
      275422870, 272270131, 269153480, 266072506, 263026799, 260015956, 257039578, 254097271,
      251188643, 248313311, 245470892, 242661010, 239883292, 237137371, 234422882, 231739465,
      229086765, 226464431, 223872114, 221309471, 218776162, 216271852, 213796209, 211348904,
      208929613, 206538016, 204173794, 201836636, 199526231, 197242274, 194984460, 192752491,
      190546072, 188364909, 186208714, 184077200, 181970086, 179887092, 177827941, 175792361,
      173780083, 171790839, 169824365, 167880402, 165958691, 164058977, 162181010, 160324539,
      158489319, 156675107, 154881662, 153108746, 151356125, 149623566, 147910839, 146217717,
      144543977, 142889396, 141253754, 139636836, 138038426, 136458314, 134896288, 133352143,
      131825674, 130316678, 128824955, 127350308, 125892541, 124451461, 123026877, 121618600,
      120226443, 118850223, 117489755, 116144861, 114815362, 113501082, 112201845, 110917482,
      109647820, 108392691, 107151931, 105925373, 104712855, 103514217, 102329299, 101157945
  >>

\* 100.0/bins[i] in cents, for the bins a best shift or its neighbour can
\* name (i - 1 >= 200): 10**(8 - (i-1)/200) dollars
Bu(i) ==
  LET q == (i - 1) \div BinsPerDecade
      r == (i - 1) % BinsPerDecade
  IN Pow10Tab[r + 1] \div (10 ^ (q - 1))

\* <<q, r>> with a * b = q * s + r and 0 <= r < s, by doubling, so that no
\* intermediate product leaves 32 bits
RECURSIVE MulDiv(_, _, _)
MulDiv(a, b, s) ==
  IF b = 0 THEN <<0, 0>>
  ELSE LET h == MulDiv(a, b \div 2, s)
           rr == 2 * h[2] + (b % 2) * a
       IN <<2 * h[1] + rr \div s, rr % s>>

\* variant of Neighbour: equal scores choose the lower neighbour
NeighbourLowerOnTie(nus, nds) == IF nds >= nus THEN -1 ELSE 1

\* bn2=-1 if nds>nus else 1
Neighbour(nus, nds) == IF nds > nus THEN -1 ELSE 1

\* w1*bu1+w2*bu2 with w1=a1/(a1+a2), w2=a2/(a1+a2), floored to cents:
\* bu1 + a2 * (bu2 - bu1) / (a1 + a2)
Blend(a1, a2, bu1, bu2) ==
  IF bu2 >= bu1
  THEN bu1 + MulDiv(a2, bu2 - bu1, a1 + a2)[1]
  ELSE LET m == MulDiv(a2, bu1 - bu2, a1 + a2)
       IN bu1 - m[1] - (IF m[2] > 0 THEN 1 ELSE 0)

\* lines 81-91, with avs, a1, a2 multiplied by the shift count 201-(-141);
\* a1/(a1+a2) raises ZeroDivisionError when a1+a2 is 0.0
RoughBlend ==
  /\ pc = "blend"
  /\ LET nus == ScoreDen * SpikeSum(bc, lp + bsl + 1)
         nds == ScoreDen * SpikeSum(bc, lp + bsl - 1)
         b2 == Neighbour(nus, nds)
         ns == Max(nus, nds)
         cnt == ShiftHi + 1 - ShiftLo
         a1 == cnt * bss - ts
         a2 == Abs(cnt * ns - ts)
     IN /\ bn2' = b2
        /\ IF a1 + a2 = 0
           THEN /\ pc' = "raised"
                /\ err' = "ZeroDivisionError"
                /\ rough' = rough
           ELSE /\ pc' = "vote"
                /\ err' = err
                /\ rough' = Blend(a1, a2, Bu(cp + bsl), Bu(cp + bsl + b2)) \div 100
  /\ UNCHANGED <<raw_outputs, k, binned, bc, s5sum, cs, scos, bsl, bss, ts,
                 op, opsrc, pd, pu, cp2, avset, it, final>>

(* --------------------------- denomination voter ----------------------- *)
\* usds
usds == <<5, 10, 15, 20, 25, 30, 40, 50, 100, 150, 200, 300, 500, 1000>>

\* micro-BTC per BTC: the unit of amounts
AmtPerBtc == 1000000
\* prw=0.25 = 1 / BandDen
BandDen == 4
\* pmr=0.0001 = 1 / RoundDen
RoundDen == 10000

\* ii=lo; while ii<hi: mr.append(ii); ii+=step, in micro-BTC
RoundRun(lo, hi, step) == {lo + j * step : j \in 0..((hi - lo - 1) \div step)}

\* mr: the five runs of lines 95-104
mr ==
  RoundRun(50, 100, 10) \cup RoundRun(100, 1000, 10)
    \cup RoundRun(1000, 10000, 100) \cup RoundRun(10000, 100000, 1000)
    \cup RoundRun(100000, 1000000, 10000)

\* av=u/rough; up=av+prw*av; dn=av-prw*av; n>dn and n<up, for an integer
\* amount n: n > (1 - 1/4) * u / r and n < (1 + 1/4) * u / r
InBand(n, u, r) ==
  /\ n > ((BandDen - 1) * (AmtPerBtc \div BandDen) * u) \div r
  /\ n <= ((BandDen + 1) * (AmtPerBtc \div BandDen) * u - 1) \div r

\* n>r-pmr*r and n<r+pmr*r
NearRound(n, r) == Abs(n - r) <= (r - 1) \div RoundDen

\* the loop of lines 113-114 leaves ok False
IsRound(n) == \E r \in mr : NearRound(n, r)

\* u/n in cents, n in micro-BTC
Price(u, n) ==
  LET d == u * AmtPerBtc
  IN (d \div n) * 100 + ((d % n) * 100) \div n

\* variant of Votes: the ok flag is read inverted
VotesInverted(n, u, r) == InBand(n, u, r) /\ IsRound(n)

\* variant of Votes: the round-value loop is skipped
VotesNoRoundCheck(n, u, r) == InBand(n, u, r)

\* line 111-115: the pair (n, u) appends u/n to op
Votes(n, u, r) == InBand(n, u, r) /\ ~IsRound(n)

\* lines 108-115 from output i, denomination j on: acc holds op and opsrc
RECURSIVE VoteLoop(_, _, _, _, _)
VoteLoop(outs, r, i, j, acc) ==
  IF i > Len(outs) THEN acc
  ELSE IF j > Len(usds) THEN VoteLoop(outs, r, i + 1, 1, acc)
  ELSE LET n == outs[i].amt
           u == usds[j]
       IN VoteLoop(outs, r, i, j + 1,
            IF Votes(n, u, r)
            THEN [op |-> Append(acc.op, Price(u, n)),
                  src |-> Append(acc.src, <<i, u>>)]
            ELSE acc)

\* lines 93-115
Vote ==
  /\ pc = "vote"
  /\ LET v == VoteLoop(raw_outputs, rough, 1, 1, [op |-> <<>>, src |-> <<>>])
     IN /\ op' = v.op
        /\ opsrc' = v.src
  /\ pc' = "split"
  /\ UNCHANGED <<err, raw_outputs, k, binned, bc, s5sum, cs, scos, bsl, bss,
                 ts, bn2, rough, pd, pu, cp2, avset, it, final>>

(* --------------------------------- refiner ---------------------------- *)
\* prt=0.05 = 1 / WinDen
WinDen == 20
\* for _ in range(100)
MaxIter == 100

\* pd=c-prt*c and pu=c+prt*c, both times WinDen
Pd(c) == (WinDen - 1) * c
Pu(c) == (WinDen + 1) * c

\* f=sorted([p for p in prices if p>pmin and p<pmax]); pmin and pmax come
\* in times WinDen
Filtered(prices, pmin, pmax) ==
  SortSeq(SelectSeq(prices, LAMBDA p : WinDen * p > pmin /\ WinDen * p < pmax),
          LAMBDA x, y : x < y)

\* ps[i] of lines 120-121, for the 1-based index i; ps[0] stands for 0.0
RECURSIVE PrefixSum(_, _)
PrefixSum(f, i) == IF i = 0 THEN 0 ELSE f[i] + PrefixSum(f, i - 1)

\* d of line 125 for the 1-based index i (the code's i is i - 1)
Dev(f, i) ==
  LET nn == Len(f)
      t == PrefixSum(f, nn)
      ls == PrefixSum(f, i - 1)
      rs == t - PrefixSum(f, i)
  IN (f[i] * (i - 1) - ls) + (rs - f[i] * (nn - i))

\* variant of Closer: a later index of equal deviation replaces the best
CloserOrEqual(d, md) == d <= md

\* if d<md: md=d; bi=i
Closer(d, md) == d < md

\* lines 122-126 from index i on: bi and md so far (md = -1 is inf)
RECURSIVE BestIndex(_, _, _, _)
BestIndex(f, i, bi, md) ==
  IF i > Len(f) THEN bi
  ELSE LET d == Dev(f, i)
       IN IF md = -1 \/ Closer(d, md)
          THEN BestIndex(f, i + 1, i, d)
          ELSE BestIndex(f, i + 1, bi, md)

\* lines 127-128, times 2: the median of the sorted absolute deviations
Mad2(f, bo) ==
  LET dv == SortSeq([i \in 1..Len(f) |-> Abs(f[i] - bo)], LAMBDA x, y : x < y)
      m == Len(dv)
  IN IF m % 2 = 0 THEN dv[m \div 2] + dv[m \div 2 + 1]
     ELSE 2 * dv[m \div 2 + 1]

\* variant of fco: an empty window falls back to 0.0, not to rough
fcoZeroFallback(prices, pmin, pmax, r) ==
  LET f == Filtered(prices, pmin, pmax)
  IN IF Len(f) = 0 THEN [bo |-> 0, mad2 |-> 0]
     ELSE LET bo == f[BestIndex(f, 1, 1, -1)]
          IN [bo |-> bo, mad2 |-> Mad2(f, bo)]

\* fco(prices,pmin,pmax): bo in cents, and twice mad; float(rough),0.0
\* when nothing lies in the window
fco(prices, pmin, pmax, r) ==
  LET f == Filtered(prices, pmin, pmax)
  IN IF Len(f) = 0 THEN [bo |-> 100 * r, mad2 |-> 0]
     ELSE LET bo == f[BestIndex(f, 1, 1, -1)]
          IN [bo |-> bo, mad2 |-> Mad2(f, bo)]

\* lines 131-132: the first split, around rough
FirstSplit ==
  /\ pc = "split"
  /\ pd' = Pd(100 * rough)
  /\ pu' = Pu(100 * rough)
  /\ cp2' = fco(op, pd', pu', rough).bo
  /\ avset' = {cp2'}
  /\ it' = 0
  /\ pc' = "refine"
  /\ UNCHANGED <<err, raw_outputs, k, binned, bc, s5sum, cs, scos, bsl, bss,
                 ts, bn2, rough, op, opsrc, final>>

\* variant of Seen: the membership test is read inverted
SeenInverted(np2, seen) == np2 \notin seen

\* if np2 in avset: cp2=np2; break
Seen(np2, seen) == np2 \in seen

\* lines 133-137, one iteration
RefineStep ==
  /\ pc = "refine"
  /\ it < MaxIter
  /\ pd' = Pd(cp2)
  /\ pu' = Pu(cp2)
  /\ LET np2 == fco(op, pd', pu', rough).bo
     IN /\ cp2' = np2
        /\ IF Seen(np2, avset)
           THEN /\ pc' = "ret"
                /\ UNCHANGED <<avset, it>>
           ELSE /\ avset' = avset \cup {np2}
                /\ it' = it + 1
                /\ pc' = IF it + 1 = MaxIter THEN "ret" ELSE "refine"
  /\ UNCHANGED <<err, raw_outputs, k, binned, bc, s5sum, cs, scos, bsl, bss,
                 ts, bn2, rough, op, opsrc, final>>

\* line 139: int(cp2)
Return ==
  /\ pc = "ret"
  /\ final' = cp2 \div 100
  /\ pc' = "done"
  /\ UNCHANGED <<err, raw_outputs, k, binned, bc, s5sum, cs, scos, bsl, bss,
                 ts, bn2, rough, op, opsrc, pd, pu, cp2, avset, it>>

(* ------------------------------ the call ------------------------------ *)
\* amounts, in micro-BTC, of the raw outputs handed to calc_price: round
\* amounts (1000, 4000, 4900, 630000, 635000), amounts next to a round one
\* (50003), plain amounts (1230, 5130, 5210) and amounts above the
\* kernel's reach (50 BTC) and above the window (1000 BTC)
Amounts ==
  {1000, 1230, 4000, 4900, 5130, 5210, 50003, 630000, 635000, 50000000,
   1000000000}

\* al-(-6) = log10(a) + 6 for those amounts, floored to 1/LogScale
Log10(n) ==
  CASE n = 1000 -> 30000
    [] n = 1230 -> 30899
    [] n = 4000 -> 36020
    [] n = 4900 -> 36901
    [] n = 5130 -> 37101
    [] n = 5210 -> 37168
    [] n = 50003 -> 46989
    [] n = 630000 -> 57993
    [] n = 635000 -> 58027
    [] n = 50000000 -> 76989
    [] n = 1000000000 -> 90000

\* what filter_block admits: o["value"]>1e-5 and o["value"]<1e5
WellFormed(n) == n > AmtPerBtc \div 100000 /\ n \div AmtPerBtc < 100000

RawOutputs == {[amt |-> n, al |-> Log10(n)] : n \in {a \in Amounts : WellFormed(a)}}

SeqsUpTo(S, m) == UNION {[1..j -> S] : j \in 0..m}

\* the locals of calc_price before line 43
Fresh ==
  /\ err = "none"
  /\ k = 0
  /\ binned = <<>>
  /\ bc = <<>>
  /\ s5sum = 0
  /\ cs = 0
  /\ scos = <<>>
  /\ bsl = 0
  /\ bss = 0
  /\ ts = 0
  /\ bn2 = 0
  /\ rough = 0
  /\ op = <<>>
  /\ opsrc = <<>>
  /\ pd = 0
  /\ pu = 0
  /\ cp2 = 0
  /\ avset = {}
  /\ it = 0
  /\ final = 0

Init ==
  /\ pc = "hist"
  /\ raw_outputs \in SeqsUpTo(RawOutputs, MaxOutputs)
  /\ Fresh

Next ==
  \/ HistogramStep
  \/ HistogramDone
  \/ Condition
  \/ ShiftScan
  \/ RoughBlend
  \/ Vote
  \/ FirstSplit
  \/ RefineStep
  \/ Return

Spec == Init /\ [][Next]_vars

(* ------------------- the histogram builder on its domain -------------- *)
\* log10(v) + 6 at HistSamples points of every bin of the 12 decades
\* 1e-6 <= v < 1e6: the lower edge of the bin and points inside it
HistPoints ==
  {b * (LogScale \div BinsPerDecade)
     + (j * (LogScale \div BinsPerDecade)) \div HistSamples :
       b \in 0..(Decades * BinsPerDecade - 1), j \in 0..(HistSamples - 1)}

\* outputs binned before the swept one: none, the lowest value of the
\* domain, or a value in the middle of it
HistBefore == {<<>>, <<[al |-> 0]>>, <<[al |-> 6 * LogScale + 1]>>}

\* the builder reads log10(a) only, so these outputs carry no amount
InitHist ==
  /\ pc = "hist"
  /\ raw_outputs \in {h \o <<[al |-> x]>> : h \in HistBefore, x \in HistPoints}
  /\ Fresh

NextHist ==
  \/ HistogramStep
  \/ HistogramDone

SpecHist == InitHist /\ [][NextHist]_vars

(* --------------------- the refiner on candidate sets ------------------ *)
\* rough prices the blend can produce, whole dollars
RefineRoughs == {20000, 21000}

\* candidate prices in cents: u/n for n inside the band of u at
\* the rough price lies between rough/1.25 and rough/0.75
PriceMenu ==
  {1650000, 1720000, 1810000, 1904000, 1950000, 1999900, 2000000, 2055000,
   2099000, 2150000, 2240000, 2600000}

\* calc_price at line 131 with that rough price and candidate list
InitRefine ==
  /\ pc = "split"
  /\ raw_outputs = <<>>
  /\ err = "none"
  /\ k = 0
  /\ binned = <<>>
  /\ bc = <<>>
  /\ s5sum = 0
  /\ cs = 0
  /\ scos = <<>>
  /\ bsl = 0
  /\ bss = 0
  /\ ts = 0
  /\ bn2 = 0
  /\ rough \in RefineRoughs
  /\ op \in SeqsUpTo(PriceMenu, MaxPrices)
  /\ opsrc = <<>>
  /\ pd = 0
  /\ pu = 0
  /\ cp2 = 0
  /\ avset = {}
  /\ it = 0
  /\ final = 0

NextRefine ==
  \/ FirstSplit
  \/ RefineStep
  \/ Return

SpecRefine == InitRefine /\ [][NextRefine]_vars

(* ============================ the properties ========================== *)
\* positions of calc_price, read off the state
Scanned == DOMAIN scos # {}
Blended == bn2 # 0
Voted == pc \in {"split", "refine", "ret", "done"}
Split == pc \in {"refine", "ret", "done"}

Range(s) == {s[i] : i \in 1..Len(s)}

(* ------------------------------- C1 ----------------------------------- *)
\* C1: calc_price of the empty sequence does not raise; it returns with an
\* empty candidate set and a final price equal to the rough price.
C1_EmptyInputReturnsRough ==
  raw_outputs = <<>> =>
    /\ pc # "raised"
    /\ pc = "done" => (op = <<>> /\ final = rough)

(* ------------------------------- C2 ----------------------------------- *)
\* C2: for every non-empty list of well-formed raw outputs calc_price takes
\* no exceptional path (no division by a zero cs, none by a zero a1+a2, no
\* bin index out of range) and returns a positive rough price.
C2_WellFormedNeverRaises ==
  (raw_outputs # <<>> /\ \A i \in 1..Len(raw_outputs) : WellFormed(raw_outputs[i].amt)) =>
    /\ pc # "raised"
    /\ err = "none"
    /\ pc = "done" => rough > 0

(* ------------------------------- C3 ----------------------------------- *)
\* C3: for every value v of the 12 decades (1e-6 <= v < 1e6) the scan never
\* runs past the last edge, the guess int(p*nb) never overshoots, the
\* resolved bin b has edges[b] <= v < edges[b+1], and the count of exactly
\* that bin went up by 1.
C3_HistogramInvariant ==
  /\ err # "IndexError"
  /\ \A j \in 1..Len(binned) :
       LET al == raw_outputs[j].al
           b == binned[j]
       IN /\ ApproxIndex(al) <= b
          /\ b + 1 < nb
          /\ BinLE(b, al)
          /\ ~BinLE(b + 1, al)
  /\ pc = "hist" =>
       \A b \in DOMAIN bc \cup Range(binned) :
         Get(bc, b) = Cardinality({j \in 1..Len(binned) : binned[j] = b})

(* ------------------------------- C4 ----------------------------------- *)
\* C4 as claimed: after the scan of every shift, bestShift is the lowest
\* shift among those that attain the maximal score, for every conditioned
\* histogram, also when every shift scores 0.
C4_LowestShiftWins ==
  Scanned =>
    /\ \A sl \in ShiftLo..ShiftHi : scos[sl] <= scos[bsl]
    /\ \A sl \in ShiftLo..(bsl - 1) : scos[sl] < scos[bsl]

\* C4 as amended: bss is the maximal score; when it is positive, bestShift
\* is the lowest shift among those that attain it; when every shift scores
\* 0, bestShift keeps its initial value 0.
C4_BestShift ==
  Scanned =>
    /\ \A sl \in ShiftLo..ShiftHi : scos[sl] >= 0 /\ scos[sl] <= bss
    /\ IF bss > 0
       THEN /\ scos[bsl] = bss
            /\ \A sl \in ShiftLo..(bsl - 1) : scos[sl] < bss
       ELSE bsl = 0

\* two adjacent shifts score exactly the same positive maximum and the
\* lower one is the best shift
C4_TieWitness ==
  /\ Scanned
  /\ bss > 0
  /\ bsl < ShiftHi
  /\ scos[bsl] = bss
  /\ scos[bsl + 1] = bss

(* ------------------------------- C5 ----------------------------------- *)
\* the surcharge-weighted sums of the two neighbours of the best shift
Nus == ScoreDen * SpikeSum(bc, lp + bsl + 1)
Nds == ScoreDen * SpikeSum(bc, lp + bsl - 1)

\* rough lies between the prices of the best shift and of neighbour b2
BlendedBetween(b2) ==
  LET bu1 == Bu(cp + bsl)
      bu2 == Bu(cp + bsl + b2)
  IN 100 * rough <= Max(bu1, bu2) /\ 100 * rough + 99 >= Min(bu1, bu2)

\* C5 as claimed: the neighbour with the higher surcharge-weighted sum is
\* chosen, and on equal sums the lower neighbour bestShift-1.
C5_LowerOnTie ==
  Blended =>
    /\ Nds > Nus => bn2 = -1
    /\ Nus > Nds => bn2 = 1
    /\ Nus = Nds => bn2 = -1

\* C5 as amended: the neighbour with the higher surcharge-weighted sum is
\* chosen, on equal sums the higher neighbour bestShift+1, and the rough
\* price blends the prices of the best shift and of that neighbour.
C5_HigherOnTie ==
  Blended =>
    /\ Nds > Nus => bn2 = -1
    /\ Nus > Nds => bn2 = 1
    /\ Nus = Nds => bn2 = 1
    /\ pc # "raised" => BlendedBetween(bn2)

\* both neighbours score the same and a rough price was produced
C5_TieWitness ==
  /\ Blended
  /\ pc = "vote"
  /\ Nus = Nds
  /\ bn2 = 1
  /\ rough > 0

(* ------------------------------- C6 ----------------------------------- *)
\* raw outputs inside the band of a denomination at the rough price
InBandPairs ==
  {p \in (1..Len(raw_outputs)) \X Range(usds) :
     InBand(raw_outputs[p[1]].amt, p[2], rough)}

\* C6 as claimed: the candidate set is empty only if no raw output lies in
\* the band of any denomination.
C6_EmptyOnlyIfNoBand ==
  Voted => (op = <<>> => InBandPairs = {})

\* C6 as amended: the candidate set is empty only if no raw output lies in
\* the band of a denomination without being within 0.01% of a round-BTC
\* reference point.
C6_EmptyOnlyIfNoVoter ==
  Voted =>
    (op = <<>> =>
       \A p \in InBandPairs : IsRound(raw_outputs[p[1]].amt))

\* a round reference amount lies in a band, next to an output that votes
C6_Witness ==
  /\ Voted
  /\ op # <<>>
  /\ \E p \in InBandPairs : raw_outputs[p[1]].amt \in mr
  /\ \E p \in InBandPairs : ~IsRound(raw_outputs[p[1]].amt)

(* ------------------------------- C7 ----------------------------------- *)
\* C7: a raw output equal to a round-BTC reference point, or strictly
\* within 0.01% of one, contributes no element to the candidate set,
\* whatever band it lies in; every element is u/n of a pair that does.
C7_RoundNeverVotes ==
  Voted =>
    /\ Len(opsrc) = Len(op)
    /\ \A j \in 1..Len(op) :
         LET n == raw_outputs[opsrc[j][1]].amt
         IN /\ n \notin mr
            /\ ~IsRound(n)
            /\ opsrc[j] \in InBandPairs
            /\ op[j] = Price(opsrc[j][2], n)
    /\ \A p \in InBandPairs :
         IsRound(raw_outputs[p[1]].amt) => p \notin Range(opsrc)

\* an output strictly within the tolerance of a reference point, and not
\* equal to it, lies in a band while another output votes
C7_Witness ==
  /\ Voted
  /\ op # <<>>
  /\ \E p \in InBandPairs :
       LET n == raw_outputs[p[1]].amt IN IsRound(n) /\ n \notin mr

(* ------------------------------- C8 ----------------------------------- *)
\* the sorted filtered list of the last split
LastF == Filtered(op, pd, pu)

\* the prices strictly inside the first window, the one around rough
FirstF == Filtered(op, Pd(100 * rough), Pu(100 * rough))

\* total absolute deviation of f from f[i]
RECURSIVE AbsDevFrom(_, _, _)
AbsDevFrom(f, i, j) ==
  IF j = 0 THEN 0 ELSE Abs(f[j] - f[i]) + AbsDevFrom(f, i, j - 1)

Tad(f, i) == AbsDevFrom(f, i, Len(f))

C9_StopsAtFixedPoint ==
  /\ it <= MaxIter
  /\ (pc \in {"ret", "done"} /\ it < MaxIter) =>
       /\ cp2 \in avset
       /\ fco(op, Pd(cp2), Pu(cp2), rough).bo = cp2

\* the split result moved twice before the loop stopped on a repeat
C9_Witness ==
  /\ pc = "done"
  /\ it >= 2
  /\ it < MaxIter
  /\ Cardinality(avset) >= 3

(* ------------------------------- C10 ---------------------------------- *)
\* C10: with no candidate strictly inside the first window the refiner
\* returns the rough price; otherwise every split returns an element of
\* the candidate set, the window of every later split holds the element
\* the split before it returned, and the final price is the integer part
\* of a candidate.
C10_FallbackOnlyAtFirstSplit ==
  Split =>
    IF Len(FirstF) = 0
    THEN /\ cp2 = 100 * rough
         /\ pc = "done" => final = rough
    ELSE /\ cp2 \in Range(op)
         /\ Len(LastF) > 0
         /\ \/ pd = Pd(100 * rough) /\ pu = Pu(100 * rough)
            \/ \E c \in avset \cap Range(op) :
                 pd = Pd(c) /\ pu = Pu(c) /\ c \in Range(LastF)
         /\ pc = "done" => (final = cp2 \div 100 /\ 100 * final <= cp2)

\* candidates exist, none inside the first window, the rough price returned
C10_Witness ==
  /\ pc = "done"
  /\ op # <<>>
  /\ Len(FirstF) = 0
  /\ final = rough

====
